---- MODULE Spec2Model ----
(***************************************************************************)
(* Model of the two MHT-to-PDF command line scripts                        *)
(*   scripts/convert_mht_uv.py      (script A, Aspose backend)             *)
(*   scripts/convert_mht_uv_alt.py  (script B, email + bs4 + xhtml2pdf)    *)
(*                                                                         *)
(* Python strings are sequences of one-character strings.  An Optional     *)
(* value is a sequence of length 0 (None) or 1 (the value).                *)
(***************************************************************************)
EXTENDS Integers, Sequences, FiniteSets, TLC

\* ------------------------------------------------------------------ bounds
\* longest archive (number of MIME sub-parts) given to a direct call of
\* extract_mht_to_html_and_assets
MaxParts == 3
\* longest archive stored in the input file of a run of script B's main
MaxPartsMain == 2

\* ----------------------------------------------------------- Python values
NoneVal == <<>>

Some(x) == <<x>>

IsNone(o) == Len(o) = 0

\* Python truthiness of an Optional[str]: None and "" are both falsy
Truthy(o) == Len(o) = 1 /\ Len(o[1]) > 0

\* x or y, on Optional[str]
PyOr(o, dflt) == IF Truthy(o) THEN o[1] ELSE dflt

StartsWith(s, p) == Len(s) >= Len(p) /\ SubSeq(s, 1, Len(p)) = p

\* s[n:]
DropPrefix(s, n) == SubSeq(s, n + 1, Len(s))

Contains(s, p) == \E k \in 1..(Len(s) - Len(p) + 1) : SubSeq(s, k, k + Len(p) - 1) = p

CidScheme == <<"c", "i", "d", ":">>

RECURSIVE LStrip(_, _)
LStrip(s, chars) == IF Len(s) > 0 /\ s[1] \in chars THEN LStrip(Tail(s), chars) ELSE s

RECURSIVE RStrip(_, _)
RStrip(s, chars) ==
    IF Len(s) > 0 /\ s[Len(s)] \in chars THEN RStrip(SubSeq(s, 1, Len(s) - 1), chars) ELSE s

\* cid.strip("<>")
StripAngle(s) == RStrip(LStrip(s, {"<", ">"}), {"<", ">"})

\* the characters of the model's alphabet that the class [A-Za-z0-9_.-] accepts
SafeChars == {"a", "b", "c", "d", "f", "h", "i", "p", "r", "t", "w", "_", ".", "-"}

\* re.sub(r"[^A-Za-z0-9_.-]", "_", filename)
SafeName(filename) == [k \in 1..Len(filename) |-> IF filename[k] \in SafeChars THEN filename[k] ELSE "_"]

\* (workdir / safe_name).as_posix(); pathlib drops a "." component
JoinPath(dir, name) == IF name = <<".">> THEN dir ELSE dir \o <<"/">> \o name

\* ------------------------------------------------------- MIME message model
\* A part is [main, sub, charset, cid, filename, content]:
\*   main/sub   Content-Type, charset its parameter ("" when absent)
\*   cid        Optional raw Content-ID header value
\*   filename   Optional Content-Disposition filename
\*   content    the text of a text part, as a sequence of HTML nodes
\* The decoded payload of the k-th part of the walk is identified by k.

\* An HTML node is [name, attrs]; attrs maps attribute names to raw values
Tag(name, attrs) == [name |-> name, attrs |-> attrs]

NoAttrs == <<>>

TextNode == Tag("#text", NoAttrs)

CidA == <<"c", "i", "d", ":", "a">>

CidB == <<"c", "i", "d", ":", "b">>

\* cid:c&  (a bare ampersand in the id; no part carries it)
CidAmp == <<"c", "i", "d", ":", "c", "&">>

\* cid:c&amp;  (the same id, with the ampersand written as an entity)
CidAmpEntity == <<"c", "i", "d", ":", "c", "&", "a", "m", "p", ";">>

HttpX == <<"h", ":", "x">>

DocEmpty == <<>>

DocAB == <<Tag("img", "src" :> CidA), TextNode, Tag("img", "src" :> CidB)>>

DocMixed ==
    << Tag("link", "href" :> CidA),
       Tag("a", "href" :> CidA),
       Tag("img", NoAttrs),
       Tag("script", "src" :> HttpX),
       Tag("source", "src" :> CidAmp),
       Tag("video", "src" :> CidAmpEntity),
       Tag("link", "src" :> CidB) >>

HtmlPart(doc, cs, cid) ==
    [main |-> "text", sub |-> "html", charset |-> cs, cid |-> cid,
     filename |-> NoneVal, content |-> doc]

HtmlParts ==
    { HtmlPart(DocEmpty, "", NoneVal), HtmlPart(DocAB, "utf-8", NoneVal),
      HtmlPart(DocMixed, "", Some(<<"<", "h", ">">>)), HtmlPart(DocAB, "utf-16", NoneVal) }

AssetPart(main, cid, fn) ==
    [main |-> main, sub |-> "x", charset |-> "", cid |-> cid,
     filename |-> fn, content |-> DocEmpty]

CidHeaders == {NoneVal, Some(<<"<", "a", ">">>), Some(<<"<", "b", ">">>)}

Filenames == {NoneVal, Some(<<"f", "/">>)}

OtherParts ==
    { AssetPart("image", Some(<<"<", "a", ">">>), Some(<<".", ".">>)),
      AssetPart("application", Some(<<"<", "b", ">">>), Some(<<"f", "_">>)),
      AssetPart("text", Some(<<"<", "a", ">">>), NoneVal) }

AssetParts == {AssetPart("image", c, f) : c \in CidHeaders, f \in Filenames}

PartOptions == HtmlParts \cup AssetParts \cup OtherParts

RootPart ==
    [main |-> "multipart", sub |-> "related", charset |-> "", cid |-> NoneVal,
     filename |-> NoneVal, content |-> DocEmpty]

Multipart(parts) == [multipart |-> TRUE, parts |-> parts]

SinglePart(p) == [multipart |-> FALSE, parts |-> <<p>>]

ArchivesUpTo(n) ==
    {Multipart(ps) : ps \in UNION {[1..k -> PartOptions] : k \in 0..n}}
        \cup {SinglePart(p) : p \in PartOptions}

\* message.walk(): the message itself, then its sub-parts in order
Walk(msg) == IF msg.multipart THEN <<RootPart>> \o msg.parts ELSE msg.parts

\* part.get_content_type() == "text/html"
IsHtml(p) == p.main = "text" /\ p.sub = "html"

AssetMainTypes == {"image", "audio", "video", "application"}

\* bytes: the text they encode and its encoding, or (enc = "raw") the
\* decoded payload of part id
TextBytes(text, cs) == [enc |-> cs, text |-> text, id |-> 0]

RawBytes(k) == [enc |-> "raw", text |-> DocEmpty, id |-> k]

\* part.get_content_charset() or "utf-8"
CharsetOrDefault(p) == IF p.charset = "" THEN "utf-8" ELSE p.charset

\* part.get_content().encode(charset) for a text part; get_content() itself
\* (bytes) for any other part
ContentBytes(p, k) ==
    IF p.main = "text" THEN TextBytes(p.content, CharsetOrDefault(p)) ELSE RawBytes(k)

\* len(b) == 0; UTF-16 output starts with a byte order mark
IsEmptyBytes(b) ==
    IF b.enc = "raw" THEN FALSE ELSE b.text = DocEmpty /\ b.enc # "utf-16"

\* what is left of text that was not encoded as UTF-8 (or ASCII)
Garbled == <<TextNode>>

\* html_part.decode("utf-8", errors="replace")
DecodeUtf8Replace(b) == IF b.enc = "utf-8" THEN b.text ELSE Garbled

\* ------------------------------------------------- BeautifulSoup round trip
AmpEntity == <<"&", "a", "m", "p", ";">>

\* the parser's reading of an attribute value: &amp; stands for &
RECURSIVE Unescape(_)
Unescape(s) ==
    IF Len(s) = 0 THEN s
    ELSE IF StartsWith(s, AmpEntity) THEN <<"&">> \o Unescape(DropPrefix(s, Len(AmpEntity)))
    ELSE <<s[1]>> \o Unescape(Tail(s))

\* the serializer's writing of an attribute value: every & becomes &amp;
RECURSIVE Escape(_)
Escape(s) ==
    IF Len(s) = 0 THEN s
    ELSE IF s[1] = "&" THEN AmpEntity \o Escape(Tail(s))
    ELSE <<s[1]>> \o Escape(Tail(s))

\* BeautifulSoup(html, "html.parser")
ParseHtml(text) ==
    [k \in 1..Len(text) |->
        Tag(text[k].name, [a \in DOMAIN text[k].attrs |-> Unescape(text[k].attrs[a])])]

\* str(soup)
SerializeHtml(soup) ==
    [k \in 1..Len(soup) |->
        Tag(soup[k].name, [a \in DOMAIN soup[k].attrs |-> Escape(soup[k].attrs[a])])]

\* soup.find_all([...])
RewrittenTags == {"img", "link", "script", "audio", "video", "source"}

\* attr = "src" if tag.name != "link" else "href"
RefAttr(name) == IF name # "link" THEN "src" ELSE "href"

\* mutant: the test "cid in cid_to_path" is missing, an unknown id is
\* rewritten to a path under the scratch directory
RewriteTag_NoLookupTest(tag, map) ==
    IF tag.name \in RewrittenTags /\ RefAttr(tag.name) \in DOMAIN tag.attrs
    THEN LET attr == RefAttr(tag.name)
             val == tag.attrs[attr]
         IN  IF StartsWith(val, CidScheme)
             THEN Tag(tag.name, [a \in DOMAIN tag.attrs |->
                    IF a # attr THEN tag.attrs[a]
                    ELSE IF DropPrefix(val, 4) \in DOMAIN map THEN map[DropPrefix(val, 4)]
                    ELSE <<"/", "w", "/">> \o DropPrefix(val, 4)])
             ELSE tag
    ELSE tag

\* the body of the loop over the tags, for one tag
RewriteTag(tag, map) ==
    IF tag.name \in RewrittenTags /\ RefAttr(tag.name) \in DOMAIN tag.attrs
    THEN LET attr == RefAttr(tag.name)
             val == tag.attrs[attr]
         IN  IF StartsWith(val, CidScheme) /\ DropPrefix(val, 4) \in DOMAIN map
             THEN Tag(tag.name, [a \in DOMAIN tag.attrs |->
                                    IF a = attr THEN map[DropPrefix(val, 4)] ELSE tag.attrs[a]])
             ELSE tag
    ELSE tag

\* the loop over the tags
RewriteCids(soup, map) == [k \in 1..Len(soup) |-> RewriteTag(soup[k], map)]

\* lines 62-75: decode, parse, rewrite, serialize
RewrittenHtml(bytes, map) ==
    SerializeHtml(RewriteCids(ParseHtml(DecodeUtf8Replace(bytes)), map))

\* m[k] = v
MapPut(m, k, v) == [x \in (DOMAIN m) \cup {k} |-> IF x = k THEN v ELSE m[x]]

\* ------------------------------------------------------ paths and the disk
\* A path is a sequence of components; a component is a sequence of pieces
\* (the stem, then each dot suffix).  An absolute path starts with RootDir.
RootDir == <<"/">>

Cwd == <<RootDir, <<"cwd">>>>

Home == <<RootDir, <<"home">>>>

\* Path(__file__).resolve().parent.parent
RepoRoot == <<RootDir, <<"repo">>>>

\* the bundled sample, default of the positional argument
DefaultInput == RepoRoot \o << <<"input-samples">>, <<"sample", ".mht">> >>

InRel == << <<"in", ".mht">> >>

InHome == << <<"~">>, <<"in", ".mht">> >>

OutRel == << <<"o">>, <<"out", ".pdf">> >>

\* paths under the home of a user the system does not know
InNobody == << <<"~nobody">>, <<"in", ".mht">> >>

OutNobody == << <<"~nobody">>, <<"out", ".pdf">> >>

\* expanduser() finds the home directory the path starts with
Expandable(p) == ~(Len(p) > 0 /\ p[1] = <<"~nobody">>)

HomeError == "RuntimeError: Could not determine home directory."

EmptyPath == <<>>

\* Path(p).expanduser().resolve()
Resolve(p) ==
    IF Len(p) > 0 /\ p[1] = RootDir THEN p
    ELSE IF Len(p) > 0 /\ p[1] = <<"~">> THEN Home \o Tail(p)
    ELSE Cwd \o p

\* in_path.stem
Stem(p) ==
    LET name == p[Len(p)]
    IN  IF Len(name) > 1 THEN SubSeq(name, 1, Len(name) - 1) ELSE name

Parent(p) == SubSeq(p, 1, Len(p) - 1)

BackendSuffix(s) == IF s = "A" THEN <<".aspose", ".pdf">> ELSE <<".xhtml2pdf", ".pdf">>

\* repo_root / "data/uploads" / (in_path.stem + suffix)
DefaultOut(s, inp) ==
    RepoRoot \o << <<"data">>, <<"uploads">>, Stem(inp) \o BackendSuffix(s) >>

DirEntry == [kind |-> "dir", type |-> "dir", size |-> 0]

\* the input file; its bytes are the run's archive (env.archive)
MhtEntry == [kind |-> "file", type |-> "mht", size |-> 1]

\* a file that was at the output path before the run
OldEntry == [kind |-> "file", type |-> "old", size |-> 7]

PdfEntry(n) == [kind |-> "file", type |-> "pdf", size |-> n]

\* sizes of what a backend writes
PdfSizes == {0, 3}

Exists(disk, p) == p \in DOMAIN disk

\* d.mkdir(parents=True, exist_ok=True)
MkdirParents(disk, d) ==
    [p \in (DOMAIN disk) \cup {SubSeq(d, 1, k) : k \in 1..Len(d)} |->
        IF p \in DOMAIN disk THEN disk[p] ELSE DirEntry]

\* ------------------------------------------------------------ command line
Opt(name) == [opt |-> name, path |-> EmptyPath]

Arg(path) == [opt |-> "", path |-> path]

NoArgs == [input |-> EmptyPath, out |-> NoneVal, seen |-> FALSE, extras |-> FALSE, status |-> "ok"]

\* argparse over the two arguments parse_args declares: the optional
\* positional input and --out; -h exits 0, a usage error exits 2
RECURSIVE ParseFrom(_, _)
ParseFrom(toks, ns) ==
    IF Len(toks) = 0
    THEN IF ns.extras THEN [ns EXCEPT !.status = "error"] ELSE ns
    ELSE LET t == toks[1]
         IN  IF t.opt = "-h" THEN [ns EXCEPT !.status = "help"]
             ELSE IF t.opt = "--out"
                  THEN IF Len(toks) < 2 \/ toks[2].opt # ""
                       THEN [ns EXCEPT !.status = "error"]
                       ELSE ParseFrom(SubSeq(toks, 3, Len(toks)), [ns EXCEPT !.out = Some(toks[2].path)])
             ELSE IF t.opt # ""
                  THEN ParseFrom(Tail(toks), [ns EXCEPT !.extras = TRUE])
             ELSE IF ns.seen
                  THEN ParseFrom(Tail(toks), [ns EXCEPT !.extras = TRUE])
             ELSE ParseFrom(Tail(toks), [ns EXCEPT !.input = t.path, !.seen = TRUE])

parse_args(argv) ==
    LET ns == ParseFrom(argv, NoArgs)
    IN  IF ns.seen THEN ns ELSE [ns EXCEPT !.input = DefaultInput]

\* Path(args.input).expanduser().resolve()
InputPath(ns) == Resolve(ns.input)

\* Path(args.out).expanduser().resolve() if args.out else the default
OutputPath(s, ns) ==
    IF Truthy(ns.out) THEN Resolve(ns.out[1]) ELSE DefaultOut(s, InputPath(ns))

Argvs ==
    { <<>>,
      <<Arg(InRel)>>,
      <<Arg(InHome)>>,
      <<Arg(EmptyPath)>>,
      <<Arg(InRel), Opt("--out"), Arg(OutRel)>>,
      <<Arg(InNobody)>>,
      <<Arg(InRel), Opt("--out"), Arg(OutNobody)>>,
      <<Opt("--out"), Arg(EmptyPath)>>,
      <<Opt("-h")>>,
      <<Opt("--bogus")>>,
      <<Arg(InRel), Opt("--out")>>,
      <<Arg(InRel), Arg(InRel)>> }

\* the disk before the run: the directories every run finds, nothing, a
\* file or a directory at the input path, and at the output path no parent
\* directory, an empty parent directory or an old file
InKinds == {"absent", "file", "dir"}

OutStates == {"nodir", "nofile", "old"}

BaseDisk == [p \in {<<RootDir>>, Cwd, Home, RepoRoot} |-> DirEntry]

WithInput(disk, inp, kind) ==
    IF kind = "absent" \/ Exists(disk, inp) THEN disk
    ELSE LET d == MkdirParents(disk, Parent(inp))
         IN  [p \in (DOMAIN d) \cup {inp} |->
                IF p = inp THEN (IF kind = "file" THEN MhtEntry ELSE DirEntry) ELSE d[p]]

WithOutput(disk, out, state) ==
    IF state = "nodir" \/ Exists(disk, out) THEN disk
    ELSE LET d == MkdirParents(disk, Parent(out))
         IN  IF state = "nofile" THEN d
             ELSE [p \in (DOMAIN d) \cup {out} |-> IF p = out THEN OldEntry ELSE d[p]]

InitialDisk(s, argv, kind, state) ==
    LET ns == parse_args(argv)
    IN  IF ns.status # "ok" \/ ~Expandable(ns.input) THEN BaseDisk
        ELSE IF Truthy(ns.out) /\ ~Expandable(ns.out[1]) THEN WithInput(BaseDisk, InputPath(ns), kind)
        ELSE WithOutput(WithInput(BaseDisk, InputPath(ns), kind), OutputPath(s, ns), state)

\* -------------------------------------------------------------------- state
VARIABLES
    env,          \* the run's inputs: script, argv, archive, the disk before
    pc,           \* position in main / extract_mht_to_html_and_assets
    args,         \* parse_args' namespace
    in_path,      \* resolved input path
    out_pdf,      \* resolved output path
    disk,         \* the file system outside the scratch directory
    stdout,       \* lines printed
    stderr,       \* diagnostics printed with eprint
    result,       \* how main ended: return code or escaped exception
    mht_bytes,    \* Optional archive read from the input
    workdir,      \* scratch directory: "none", "exists", "deleted"
    files,        \* files in the scratch directory: name -> bytes
    i,            \* index into message.walk()
    html_part,    \* Optional bytes
    cid_to_path,  \* content-id -> path
    html,         \* Optional returned HTML
    exc           \* the exception that was raised ("" when none)

vars ==
    <<env, pc, args, in_path, out_pdf, disk, stdout, stderr, result, mht_bytes,
      workdir, files, i, html_part, cid_to_path, html, exc>>

mainVars == <<args, in_path, out_pdf, disk, stdout, stderr, result>>

extractVars == <<files, i, html_part, cid_to_path, html>>

Running == [kind |-> "running", code |-> 0, exc |-> ""]

Return(code) == [kind |-> "return", code |-> code, exc |-> ""]

\* an exception that leaves main; for SystemExit code is the exit status
Raise(e, code) == [kind |-> "raise", code |-> code, exc |-> e]

\* the scratch directory handed to extract_mht_to_html_and_assets
WorkdirPath == <<"/", "w">>

EmptyArchive == Multipart(<<>>)

InitCommon ==
    /\ pc = "start"
    /\ args = NoArgs
    /\ in_path = EmptyPath
    /\ out_pdf = EmptyPath
    /\ stdout = <<>>
    /\ stderr = <<>>
    /\ result = Running
    /\ mht_bytes = NoneVal
    /\ files = <<>>
    /\ i = 1
    /\ html_part = NoneVal
    /\ cid_to_path = <<>>
    /\ html = NoneVal
    /\ exc = ""

\* a run of script A or script B from the command line
InitMain ==
    /\ \E s \in {"A", "B"}, argv \in Argvs, kind \in InKinds, state \in OutStates :
         \E arch \in (IF s = "B" /\ kind = "file" THEN ArchivesUpTo(MaxPartsMain) ELSE {EmptyArchive}) :
            env = [script |-> s, argv |-> argv, archive |-> arch,
                   disk0 |-> InitialDisk(s, argv, kind, state)]
    /\ disk = env.disk0
    /\ workdir = "none"
    /\ InitCommon

\* a direct call extract_mht_to_html_and_assets(mht_bytes, workdir) with an
\* empty scratch directory
InitExtract ==
    /\ \E arch \in ArchivesUpTo(MaxParts) :
            env = [script |-> "X", argv |-> <<>>, archive |-> arch, disk0 |-> BaseDisk]
    /\ disk = env.disk0
    /\ workdir = "exists"
    /\ InitCommon

Init == InitMain \/ InitExtract

\* ------------------------------------- extract_mht_to_html_and_assets
\* BytesParser(policy=policy.default).parsebytes(mht_bytes)
message == mht_bytes[1]

part == Walk(message)[i]

\* cid = part.get("Content-ID"); if cid: cid = cid.strip("<>")
PartCid(p) == IF Truthy(p.cid) THEN Some(StripAngle(p.cid[1])) ELSE p.cid

PartName == <<"p", "a", "r", "t">>

\* filename = part.get_filename() or (cid or "part")
PartFilename(p) == PyOr(p.filename, PyOr(PartCid(p), PartName))

\* out_path = workdir / safe_name
OutPath(p) == JoinPath(WorkdirPath, SafeName(PartFilename(p)))

\* part.get_payload(decode=True): None for a multipart container
GetPayload(p, k) == IF p.main = "multipart" THEN NoneVal ELSE Some(RawBytes(k))

\* the names under which workdir / safe_name is a directory, not a file
DirNames == {<<".">>, <<".", ".">>}

InLoop == pc = "x_walk" /\ i <= Len(Walk(message))

AfterLoop == pc = "x_check" \/ (pc = "x_walk" /\ i > Len(Walk(message)))

\* mutant: the test "html_part is None" is missing
TakesHtml_EveryHtmlPart(p) == IsHtml(p)

\* content_type == "text/html" and html_part is None
TakesHtml(p) == IsHtml(p) /\ IsNone(html_part)

IsAsset(p) == p.main \in AssetMainTypes

\* the caller of a direct call hands over the archive's bytes
CallExtract ==
    /\ pc = "start" /\ env.script = "X"
    /\ mht_bytes' = Some(env.archive)
    /\ pc' = "x_parse"
    /\ UNCHANGED <<env, mainVars, workdir, extractVars, exc>>

ExtractMultipart ==
    /\ pc = "x_parse" /\ message.multipart
    /\ pc' = "x_walk"
    /\ i' = 1
    /\ UNCHANGED <<env, mainVars, mht_bytes, workdir, files, html_part, cid_to_path, html, exc>>

ExtractSinglePart ==
    /\ pc = "x_parse" /\ ~message.multipart
    /\ html_part' = Some(ContentBytes(message.parts[1], 1))
    /\ pc' = "x_check"
    /\ UNCHANGED <<env, mainVars, mht_bytes, workdir, files, i, cid_to_path, html, exc>>

WalkHtml ==
    /\ InLoop /\ TakesHtml(part)
    /\ html_part' = Some(ContentBytes(part, i))
    /\ i' = i + 1
    /\ UNCHANGED <<env, pc, mainVars, mht_bytes, workdir, files, cid_to_path, html, exc>>

WalkAsset ==
    /\ InLoop /\ ~TakesHtml(part) /\ IsAsset(part)
    /\ LET cid == PartCid(part)
           data == GetPayload(part, i)
       IN  /\ ~(~IsNone(data) /\ SafeName(PartFilename(part)) \in DirNames)
           /\ files' = IF ~IsNone(data) THEN MapPut(files, OutPath(part), data[1]) ELSE files
           /\ cid_to_path' = IF ~IsNone(data) /\ Truthy(cid)
                             THEN MapPut(cid_to_path, cid[1], OutPath(part))
                             ELSE cid_to_path
    /\ i' = i + 1
    /\ UNCHANGED <<env, pc, mainVars, mht_bytes, workdir, html_part, html, exc>>

\* out_path.write_bytes(data) on a directory
WalkAssetIsDirectory ==
    /\ InLoop /\ ~TakesHtml(part) /\ IsAsset(part)
    /\ ~IsNone(GetPayload(part, i)) /\ SafeName(PartFilename(part)) \in DirNames
    /\ exc' = "IsADirectoryError"
    /\ pc' = "x_raise"
    /\ UNCHANGED <<env, mainVars, mht_bytes, workdir, extractVars>>

WalkSkip ==
    /\ InLoop /\ ~TakesHtml(part) /\ ~IsAsset(part)
    /\ i' = i + 1
    /\ UNCHANGED <<env, pc, mainVars, mht_bytes, workdir, files, html_part, cid_to_path, html, exc>>

NoHtmlError == "RuntimeError: No HTML part found in MHT"

\* not html_part
NotHtmlPart == IF IsNone(html_part) THEN TRUE ELSE IsEmptyBytes(html_part[1])

ExtractNoHtml ==
    /\ AfterLoop /\ NotHtmlPart
    /\ exc' = NoHtmlError
    /\ pc' = "x_raise"
    /\ UNCHANGED <<env, mainVars, mht_bytes, workdir, extractVars>>

ExtractRewrite ==
    /\ AfterLoop /\ ~NotHtmlPart
    /\ html' = Some(RewrittenHtml(html_part[1], cid_to_path))
    /\ pc' = "x_return"
    /\ UNCHANGED <<env, mainVars, mht_bytes, workdir, files, i, html_part, cid_to_path, exc>>

Extract ==
    \/ CallExtract
    \/ ExtractMultipart
    \/ ExtractSinglePart
    \/ WalkHtml
    \/ WalkAsset
    \/ WalkAssetIsDirectory
    \/ WalkSkip
    \/ ExtractNoHtml
    \/ ExtractRewrite

\* --------------------------------------------------------------- main, both
Line(msg, path, size) == [msg |-> msg, path |-> path, size |-> size]

\* args = parse_args(argv): argparse leaves through SystemExit on -h (after
\* printing the help) and on a usage error (after printing the usage)
ParseArgsStep(s) ==
    /\ pc = "start" /\ env.script = s
    /\ LET ns == parse_args(env.argv)
       IN  /\ args' = ns
           /\ pc' = IF ns.status = "ok" THEN "check_input" ELSE "done"
           /\ result' = IF ns.status = "help" THEN Raise("SystemExit", 0)
                        ELSE IF ns.status = "error" THEN Raise("SystemExit", 2)
                        ELSE result
           /\ stdout' = IF ns.status = "help" THEN Append(stdout, Line("help", EmptyPath, 0))
                        ELSE stdout
           /\ stderr' = IF ns.status = "error" THEN Append(stderr, Line("usage", EmptyPath, 0))
                        ELSE stderr
    /\ UNCHANGED <<env, in_path, out_pdf, disk, mht_bytes, workdir, extractVars, exc>>

\* mutant: the diagnostic prints the argument as given, not the resolved path
CheckInputStep_PrintsArgument(s) ==
    /\ pc = "check_input" /\ env.script = s
    /\ IF ~Expandable(args.input)
       THEN /\ exc' = HomeError
            /\ result' = Raise(exc', 1)
            /\ pc' = "done"
            /\ UNCHANGED <<in_path, out_pdf, stderr>>
       ELSE /\ in_path' = InputPath(args)
            /\ IF ~Exists(disk, in_path')
               THEN /\ stderr' = Append(stderr, Line("Input not found", args.input, 0))
                    /\ result' = Return(2)
                    /\ pc' = "done"
                    /\ UNCHANGED <<out_pdf, exc>>
               ELSE IF Truthy(args.out) /\ ~Expandable(args.out[1])
               THEN /\ exc' = HomeError
                    /\ result' = Raise(exc', 1)
                    /\ pc' = "done"
                    /\ UNCHANGED <<out_pdf, stderr>>
               ELSE /\ out_pdf' = OutputPath(s, args)
                    /\ pc' = IF s = "A" THEN "a_import" ELSE "b_read"
                    /\ UNCHANGED <<stderr, result, exc>>
    /\ UNCHANGED <<env, args, disk, stdout, mht_bytes, workdir, extractVars>>

\* resolve the input (expanduser raises for an unknown ~user), return 2 when
\* it does not exist, else resolve the output; none of it inside a try
CheckInputStep(s) ==
    /\ pc = "check_input" /\ env.script = s
    /\ IF ~Expandable(args.input)
       THEN /\ exc' = HomeError
            /\ result' = Raise(exc', 1)
            /\ pc' = "done"
            /\ UNCHANGED <<in_path, out_pdf, stderr>>
       ELSE /\ in_path' = InputPath(args)
            /\ IF ~Exists(disk, in_path')
               THEN /\ stderr' = Append(stderr, Line("Input not found", in_path', 0))
                    /\ result' = Return(2)
                    /\ pc' = "done"
                    /\ UNCHANGED <<out_pdf, exc>>
               ELSE IF Truthy(args.out) /\ ~Expandable(args.out[1])
               THEN /\ exc' = HomeError
                    /\ result' = Raise(exc', 1)
                    /\ pc' = "done"
                    /\ UNCHANGED <<out_pdf, stderr>>
               ELSE /\ out_pdf' = OutputPath(s, args)
                    /\ pc' = IF s = "A" THEN "a_import" ELSE "b_read"
                    /\ UNCHANGED <<stderr, result, exc>>
    /\ UNCHANGED <<env, args, disk, stdout, mht_bytes, workdir, extractVars>>

\* size = out.stat().st_size if out.exists() else 0
SizeOf(d, out) == IF Exists(d, out) THEN d[out].size ELSE 0

WriteFile(d, out, entry) == [p \in (DOMAIN d) \cup {out} |-> IF p = out THEN entry ELSE d[p]]

\* ------------------------------------------------------------ script A main
A_ParseArgs == ParseArgsStep("A")

A_CheckInput == CheckInputStep("A")

\* mutant: the import is outside main's try, its failure leaves main
A_Import_OutsideTry ==
    /\ pc = "a_import"
    /\ \E ok \in BOOLEAN :
         IF ok
         THEN pc' = "a_mkdir" /\ UNCHANGED <<stderr, exc, result>>
         ELSE /\ stderr' = Append(stderr, Line("Failed to import aspose.pdf", EmptyPath, 0))
              /\ exc' = "ImportError"
              /\ result' = Raise("ImportError", 1)
              /\ pc' = "done"
    /\ UNCHANGED <<env, args, in_path, out_pdf, disk, stdout, mht_bytes, workdir, extractVars>>

\* import aspose.pdf as ap, re-raised after a diagnostic when it fails
A_Import ==
    /\ pc = "a_import"
    /\ \E ok \in BOOLEAN :
         IF ok
         THEN pc' = "a_mkdir" /\ UNCHANGED <<stderr, exc>>
         ELSE /\ stderr' = Append(stderr, Line("Failed to import aspose.pdf", EmptyPath, 0))
              /\ exc' = "ImportError"
              /\ pc' = "a_except"
    /\ UNCHANGED <<env, args, in_path, out_pdf, disk, stdout, result, mht_bytes, workdir, extractVars>>

\* output_path.parent.mkdir(parents=True, exist_ok=True)
A_Mkdir ==
    /\ pc = "a_mkdir"
    /\ \E ok \in BOOLEAN :
         IF ok
         THEN disk' = MkdirParents(disk, Parent(out_pdf)) /\ pc' = "a_load" /\ exc' = exc
         ELSE disk' = disk /\ pc' = "a_except" /\ exc' = "OSError"
    /\ UNCHANGED <<env, args, in_path, out_pdf, stdout, stderr, result, mht_bytes, workdir, extractVars>>

\* ap.Document(str(input_path), MhtLoadOptions()); a directory does not load
A_Load ==
    /\ pc = "a_load"
    /\ \E ok \in (IF disk[in_path].kind = "file" THEN BOOLEAN ELSE {FALSE}) :
         IF ok
         THEN pc' = "a_save" /\ exc' = exc
         ELSE pc' = "a_except" /\ exc' = "AsposeError"
    /\ UNCHANGED <<env, mainVars, mht_bytes, workdir, extractVars>>

\* doc.save(str(output_path)): raises, or leaves a PDF of some size
A_Save ==
    /\ pc = "a_save"
    /\ \/ /\ pc' = "a_except" /\ exc' = "AsposeError" /\ disk' = disk
       \/ \E n \in PdfSizes :
            /\ disk' = WriteFile(disk, out_pdf, PdfEntry(n))
            /\ pc' = "a_report" /\ exc' = exc
    /\ UNCHANGED <<env, args, in_path, out_pdf, stdout, stderr, result, mht_bytes, workdir, extractVars>>

\* the size query and the success line, inside the try
A_Report ==
    /\ pc = "a_report"
    /\ \E ok \in BOOLEAN :
         IF ok
         THEN /\ stdout' = Append(stdout, Line("Aspose PDF written", out_pdf, SizeOf(disk, out_pdf)))
              /\ result' = Return(0)
              /\ pc' = "done"
              /\ exc' = exc
         ELSE /\ pc' = "a_except" /\ exc' = "OSError"
              /\ UNCHANGED <<stdout, result>>
    /\ UNCHANGED <<env, args, in_path, out_pdf, disk, stderr, mht_bytes, workdir, extractVars>>

\* except Exception as exc: eprint("Conversion failed:", exc); return 1
A_Except ==
    /\ pc = "a_except"
    /\ stderr' = Append(stderr, Line("Conversion failed", EmptyPath, 0))
    /\ result' = Return(1)
    /\ pc' = "done"
    /\ UNCHANGED <<env, args, in_path, out_pdf, disk, stdout, mht_bytes, workdir, extractVars, exc>>

MainA ==
    \/ A_ParseArgs
    \/ A_CheckInput
    \/ A_Import
    \/ A_Mkdir
    \/ A_Load
    \/ A_Save
    \/ A_Report
    \/ A_Except

\* ------------------------------------------------------------ script B main
B_ParseArgs == ParseArgsStep("B")

B_CheckInput == CheckInputStep("B")

\* an exception that nothing in script B catches (exit status 1)
Uncaught(e) == Raise(e, 1)

\* mht_bytes = in_path.read_bytes()
B_Read ==
    /\ pc = "b_read"
    /\ \E ok \in (IF disk[in_path].kind = "file" THEN BOOLEAN ELSE {FALSE}) :
         IF ok
         THEN mht_bytes' = Some(env.archive) /\ pc' = "b_mktemp" /\ UNCHANGED <<result, exc>>
         ELSE /\ exc' = (IF disk[in_path].kind = "file" THEN "OSError" ELSE "IsADirectoryError")
              /\ result' = Uncaught(exc')
              /\ pc' = "done"
              /\ mht_bytes' = mht_bytes
    /\ UNCHANGED <<env, args, in_path, out_pdf, disk, stdout, stderr, workdir, extractVars>>

\* mutant: the output directory is made before the extraction
B_MkTemp_MakesOutputDir ==
    /\ pc = "b_mktemp"
    /\ \E ok \in BOOLEAN :
         IF ok
         THEN /\ workdir' = "exists" /\ pc' = "x_parse" /\ UNCHANGED <<result, exc>>
              /\ disk' = MkdirParents(disk, Parent(out_pdf))
         ELSE /\ workdir' = workdir /\ pc' = "done" /\ exc' = "OSError" /\ result' = Uncaught(exc')
              /\ disk' = disk
    /\ UNCHANGED <<env, args, in_path, out_pdf, stdout, stderr, mht_bytes, extractVars>>

\* with tempfile.TemporaryDirectory(prefix="mht2pdf_") as tmp
B_MkTemp ==
    /\ pc = "b_mktemp"
    /\ \E ok \in BOOLEAN :
         IF ok
         THEN workdir' = "exists" /\ pc' = "x_parse" /\ UNCHANGED <<result, exc>>
         ELSE workdir' = workdir /\ pc' = "done" /\ exc' = "OSError" /\ result' = Uncaught(exc')
    /\ UNCHANGED <<env, args, in_path, out_pdf, disk, stdout, stderr, mht_bytes, extractVars>>

\* html_to_pdf_with_xhtml2pdf: out_pdf.parent.mkdir(parents=True, exist_ok=True)
B_RenderMkdir ==
    /\ pc = "x_return" /\ env.script = "B"
    /\ \E ok \in BOOLEAN :
         IF ok
         THEN disk' = MkdirParents(disk, Parent(out_pdf)) /\ pc' = "b_open" /\ exc' = exc
         ELSE disk' = disk /\ pc' = "b_exit_with" /\ exc' = "OSError"
    /\ UNCHANGED <<env, args, in_path, out_pdf, stdout, stderr, result, mht_bytes, workdir, extractVars>>

\* open(out_pdf, "wb"): creates the file or truncates it
B_Open ==
    /\ pc = "b_open"
    /\ \E ok \in BOOLEAN :
         IF ok
         THEN disk' = WriteFile(disk, out_pdf, PdfEntry(0)) /\ pc' = "b_create" /\ exc' = exc
         ELSE disk' = disk /\ pc' = "b_exit_with" /\ exc' = "OSError"
    /\ UNCHANGED <<env, args, in_path, out_pdf, stdout, stderr, result, mht_bytes, workdir, extractVars>>

RenderError == "RuntimeError: xhtml2pdf failed with errors"

\* result = pisa.CreatePDF(src=html, dest=f); raise if result.err; close f
B_CreatePdf ==
    /\ pc = "b_create"
    /\ \E n \in PdfSizes, outcome \in {"", RenderError, "PisaException"} :
         /\ disk' = WriteFile(disk, out_pdf, PdfEntry(n))
         /\ exc' = outcome
    /\ pc' = "b_exit_with"
    /\ UNCHANGED <<env, args, in_path, out_pdf, stdout, stderr, result, mht_bytes, workdir, extractVars>>

\* mutant: the scratch directory is removed only when nothing was raised
B_ExitWith_CleanupOnSuccessOnly ==
    /\ pc \in {"b_exit_with", "x_raise"} /\ env.script = "B"
    /\ IF exc = ""
       THEN pc' = "b_report" /\ result' = result /\ workdir' = "deleted" /\ files' = <<>>
       ELSE pc' = "done" /\ result' = Uncaught(exc) /\ UNCHANGED <<workdir, files>>
    /\ UNCHANGED <<env, args, in_path, out_pdf, disk, stdout, stderr, mht_bytes, i, html_part, cid_to_path, html, exc>>

\* mutant: the exception raised inside the with block is swallowed
B_ExitWith_Swallows ==
    /\ pc \in {"b_exit_with", "x_raise"} /\ env.script = "B"
    /\ workdir' = "deleted"
    /\ files' = <<>>
    /\ pc' = "b_report"
    /\ UNCHANGED <<env, args, in_path, out_pdf, disk, stdout, stderr, result, mht_bytes, i, html_part, cid_to_path, html, exc>>

\* leaving the with block, normally or by an exception: the scratch
\* directory and what is in it are removed
B_ExitWith ==
    /\ pc \in {"b_exit_with", "x_raise"} /\ env.script = "B"
    /\ workdir' = "deleted"
    /\ files' = <<>>
    /\ IF exc = ""
       THEN pc' = "b_report" /\ result' = result
       ELSE pc' = "done" /\ result' = Uncaught(exc)
    /\ UNCHANGED <<env, args, in_path, out_pdf, disk, stdout, stderr, mht_bytes, i, html_part, cid_to_path, html, exc>>

\* the size query and the success line, outside any try
B_Report ==
    /\ pc = "b_report"
    /\ \E ok \in BOOLEAN :
         IF ok
         THEN /\ stdout' = Append(stdout, Line("xhtml2pdf PDF written", out_pdf, SizeOf(disk, out_pdf)))
              /\ result' = Return(0)
              /\ exc' = exc
         ELSE /\ exc' = "OSError"
              /\ result' = Uncaught(exc')
              /\ stdout' = stdout
    /\ pc' = "done"
    /\ UNCHANGED <<env, args, in_path, out_pdf, disk, stderr, mht_bytes, workdir, extractVars>>

MainB ==
    \/ B_ParseArgs
    \/ B_CheckInput
    \/ B_Read
    \/ B_MkTemp
    \/ B_RenderMkdir
    \/ B_Open
    \/ B_CreatePdf
    \/ B_ExitWith
    \/ B_Report

Next == MainA \/ MainB \/ Extract

Spec == Init /\ [][Next]_vars

\* ------------------------------------------------------------------ claims
\* extract_mht_to_html_and_assets has returned / has raised
FunctionReturned == pc = "x_return"

FunctionRaised == pc = "x_raise"

HtmlIndexes(ps) == {k \in 1..Len(ps) : IsHtml(ps[k])}

\* the values of all attributes of all tags of a document
AttrValues(doc) == UNION {{doc[k].attrs[a] : a \in DOMAIN doc[k].attrs} : k \in 1..Len(doc)}

CidRef(id) == CidScheme \o id

\* the positions of doc where an img tag has src = v
ImgSrcAt(doc, v) ==
    {k \in 1..Len(doc) : doc[k].name = "img" /\ "src" \in DOMAIN doc[k].attrs /\ doc[k].attrs["src"] = v}

\* one text/html part, every other part an asset part with a Content-ID of
\* its own, and the HTML's cid: references are one img src per asset id
OneHtmlAndReferencedAssets(arch) ==
    /\ arch.multipart
    /\ Cardinality(HtmlIndexes(arch.parts)) = 1
    /\ LET ps == arch.parts
           h == CHOOSE k \in HtmlIndexes(ps) : TRUE
           assets == (1..Len(ps)) \ {h}
           ids == {StripAngle(ps[k].cid[1]) : k \in assets}
       IN  /\ \A k \in assets : IsAsset(ps[k]) /\ Truthy(ps[k].cid) /\ Len(StripAngle(ps[k].cid[1])) > 0
           /\ Cardinality(ids) = Cardinality(assets)
           /\ \A id \in ids : Cardinality(ImgSrcAt(ps[h].content, CidRef(id))) = 1
           /\ \A k \in 1..Len(ps[h].content) :
                \A a \in DOMAIN ps[h].content[k].attrs :
                    StartsWith(ps[h].content[k].attrs[a], CidScheme)
                        => /\ a = "src"
                           /\ k \in UNION {ImgSrcAt(ps[h].content, CidRef(id)) : id \in ids}

InWorkdir(path) == StartsWith(path, WorkdirPath \o <<"/">>) /\ Len(path) > Len(WorkdirPath) + 1

\* the positions of the returned HTML whose img src names an existing file
\* inside the scratch directory
ExtractedRefs(doc) ==
    {k \in 1..Len(doc) :
        /\ doc[k].name = "img" /\ "src" \in DOMAIN doc[k].attrs
        /\ InWorkdir(doc[k].attrs["src"])
        /\ doc[k].attrs["src"] \in DOMAIN files}

\* C1 (as claimed): for a multipart archive with one text/html part and N
\* asset parts with distinct Content-IDs, each referenced once as cid:<id>
\* in an img src, the function returns HTML with no cid: left and with N
\* references to files that exist in the scratch directory, whatever the
\* order of the parts.
C1_AllReferencesRewritten ==
    (OneHtmlAndReferencedAssets(env.archive) /\ (FunctionReturned \/ FunctionRaised))
        => /\ FunctionReturned
           /\ \A v \in AttrValues(html[1]) : ~Contains(v, CidScheme)
           /\ Cardinality(ExtractedRefs(html[1])) = Len(env.archive.parts) - 1

\* the parts of the walk that were written as assets and carry content-id X
CarriersOf(X) ==
    {k \in 1..Len(Walk(message)) :
        IsAsset(Walk(message)[k]) /\ PartCid(Walk(message)[k]) = Some(X)}

\* C8 (as claimed): when the function returns, for every content-id X in
\* the mapping the file at the mapped path holds the decoded payload of a
\* part that carries Content-ID X.
C8_MappedFileHoldsOwnPayload ==
    FunctionReturned =>
        \A X \in DOMAIN cid_to_path :
            /\ cid_to_path[X] \in DOMAIN files
            /\ \E k \in CarriersOf(X) : files[cid_to_path[X]] = RawBytes(k)

\* C3 (as claimed): on a multipart archive the function raises the "No HTML
\* part found in MHT" RuntimeError, and returns no HTML, exactly when the
\* archive has no text/html part.
C3_NoHtmlFaultIffNoHtmlPart ==
    (env.archive.multipart /\ (FunctionReturned \/ FunctionRaised))
        => IF HtmlIndexes(env.archive.parts) = {}
           THEN FunctionRaised /\ exc = NoHtmlError /\ IsNone(html)
           ELSE exc # NoHtmlError

FirstHtml(w) == CHOOSE k \in HtmlIndexes(w) : \A l \in HtmlIndexes(w) : k <= l

\* C9: on a multipart archive with text/html parts the HTML body is the
\* content of the first of them in walk order and is set once the walk has
\* passed it; no text/html part is ever written into the scratch directory,
\* and every entry of the content-id mapping comes from an asset part.
C9_FirstHtmlPartIsBody ==
    LET w == Walk(env.archive)
    IN  (env.archive.multipart /\ HtmlIndexes(w) # {}) =>
            LET h == FirstHtml(w)
            IN  /\ ~IsNone(html_part) => html_part = Some(ContentBytes(w[h], h))
                /\ ((pc = "x_walk" /\ i > h) \/ FunctionReturned \/ exc = NoHtmlError)
                        => ~IsNone(html_part)
                /\ \A f \in DOMAIN files : \A k \in HtmlIndexes(w) :
                        files[f] # RawBytes(k) /\ files[f] # ContentBytes(w[k], k)
                /\ \A X \in DOMAIN cid_to_path :
                        \E k \in 1..(i - 1) : IsAsset(w[k]) /\ PartCid(w[k]) = Some(X)

\* C9 witness: the first text/html part is empty, a later one is not, the
\* walk is over and the body is still the empty first part
C9_Witness_EmptyFirstHtml ==
    LET w == Walk(env.archive)
    IN  /\ env.archive.multipart
        /\ Cardinality(HtmlIndexes(w)) >= 2
        /\ w[FirstHtml(w)].content = DocEmpty
        /\ \E k \in HtmlIndexes(w) : w[k].content # DocEmpty
        /\ FunctionRaised /\ exc = NoHtmlError
        /\ html_part = Some(TextBytes(DocEmpty, "utf-8"))
        /\ DOMAIN files # {}

\* the positions of the parsed HTML where a recognized tag refers to a
\* cid: id that is not a key of the mapping
UnmatchedRefs(soup) ==
    {k \in 1..Len(soup) :
        /\ soup[k].name \in RewrittenTags
        /\ RefAttr(soup[k].name) \in DOMAIN soup[k].attrs
        /\ StartsWith(soup[k].attrs[RefAttr(soup[k].name)], CidScheme)
        /\ DropPrefix(soup[k].attrs[RefAttr(soup[k].name)], 4) \notin DOMAIN cid_to_path}

\* the HTML text handed to the parser (line 62)
DecodedHtml == DecodeUtf8Replace(html_part[1])

ResolvedInput == Resolve(args.input)

InputMissing == ~Exists(env.disk0, ResolvedInput)

\* the arguments parsed and no path in them starts with an unknown ~user
PathsExpand ==
    /\ args.status = "ok"
    /\ Expandable(args.input)
    /\ IsNone(args.out) \/ Expandable(args.out[1])

\* main is past the check of the input's existence
PastInputCheck == pc \notin {"start", "check_input"}

\* C4: in both scripts, when the resolved input path does not exist main
\* returns 2 with one diagnostic that carries the resolved path, and nothing
\* else has happened: no read, no scratch directory, the disk as it was, no
\* line on stdout.
C4_InputNotFound ==
    (env.script \in {"A", "B"} /\ args.status = "ok" /\ PastInputCheck
            /\ Expandable(args.input) /\ InputMissing)
        => /\ pc = "done"
           /\ result = Return(2)
           /\ stderr = <<Line("Input not found", ResolvedInput, 0)>>
           /\ stdout = <<>>
           /\ disk = env.disk0
           /\ workdir = "none"
           /\ DOMAIN files = {}
           /\ IsNone(mht_bytes) /\ IsNone(html) /\ exc = ""

\* C4 witness: script B was given a relative path that does not exist
C4_Witness_RelativeInputMissing ==
    /\ env.script = "B"
    /\ args.input = InRel
    /\ result = Return(2)
    /\ stderr = <<Line("Input not found", Cwd \o InRel, 0)>>

LastLine(lines) == lines[Len(lines)]

\* what C5 says of a finished run of script A
ExitCodeTellsOutcomeA ==
    /\ result.kind = "return"
    /\ result.code \in {0, 1, 2}
    /\ result.code = 2 <=> InputMissing
    /\ result.code = 1 <=> (~InputMissing /\ exc # "")
    /\ result.code = 0 <=> (~InputMissing /\ exc = "")
    /\ result.code = 1 =>
         /\ stdout = <<>>
         /\ Len(stderr) >= 1 /\ LastLine(stderr).msg = "Conversion failed"
    /\ result.code = 0 =>
         /\ stdout = <<Line("Aspose PDF written", out_pdf, SizeOf(disk, out_pdf))>>
         /\ stderr = <<>>

RendererInvoked == pc \in {"x_return", "b_open", "b_create"}

\* C6: in script B's main the scratch directory never outlives the run: in
\* every final state (return 0, return 2, an exception that left main) no
\* scratch directory and no asset file exists, files only ever exist inside
\* an existing scratch directory, and the renderer runs only while the
\* scratch directory exists.
C6_ScratchNeverOutlivesRun ==
    env.script = "B" =>
        /\ pc = "done" => (workdir \in {"none", "deleted"} /\ DOMAIN files = {})
        /\ workdir # "exists" => DOMAIN files = {}
        /\ RendererInvoked => workdir = "exists"
        /\ workdir = "none" => (IsNone(html) /\ DOMAIN cid_to_path = {})

\* C6 witness: an asset was written into the scratch directory, extraction
\* raised the no-HTML-part fault, and main was left with the directory gone
C6_Witness_CleanupAfterNoHtml ==
    /\ env.script = "B"
    /\ pc = "done"
    /\ result = Uncaught(NoHtmlError)
    /\ DOMAIN cid_to_path # {}
    /\ workdir = "deleted"
    /\ DOMAIN files = {}

SuccessLineB == Line("xhtml2pdf PDF written", out_pdf, SizeOf(disk, out_pdf))

\* C7: script B's main returns only 0 and 2; it returns 2 exactly when the
\* resolved input does not exist; it returns 0, with the success line, only
\* when reading, extraction and rendering raised nothing; whatever is
\* raised after the input check leaves main uncaught, with no success line.
C7_ReturnsOnlyZeroAndTwo ==
    env.script = "B" =>
        /\ result.kind = "return" => result.code \in {0, 2}
        /\ (pc = "done" /\ args.status = "ok" /\ Expandable(args.input))
                => (result = Return(2) <=> InputMissing)
        /\ result = Return(0) =>
                /\ stdout = <<SuccessLineB>>
                /\ exc = ""
                /\ ~IsNone(mht_bytes) /\ ~IsNone(html)
                /\ Exists(disk, out_pdf) /\ disk[out_pdf].type = "pdf"
        /\ result # Return(0) => stdout \in {<<>>, <<Line("help", EmptyPath, 0)>>}
        /\ exc # "" => result.kind # "return"
        /\ (exc # "" /\ pc = "done") => result = Uncaught(exc)
        /\ (pc = "done" /\ PastInputCheck /\ result.kind = "return" /\ result.code # 0)
                => InputMissing

\* C7 witness: the renderer reported an error; main was left by the
\* RuntimeError, after the cleanup, without a success line
C7_Witness_RendererError ==
    /\ env.script = "B"
    /\ pc = "done"
    /\ result = Uncaught(RenderError)
    /\ stdout = <<>>
    /\ workdir = "deleted"
    /\ Exists(disk, out_pdf)

\* C10: in script B's main the disk outside the scratch directory is as it
\* was before the run for as long as extract_mht_to_html_and_assets has not
\* returned; so a failed extraction leaves the output path, its parent
\* directories and an old file at the output path untouched.
C10_OutputTouchedAfterExtraction ==
    env.script = "B" =>
        /\ IsNone(html) => disk = env.disk0
        /\ pc \in {"start", "check_input", "b_read", "b_mktemp", "x_parse", "x_walk", "x_check", "x_raise"}
                => disk = env.disk0

\* C10 witness: extraction failed on an archive without HTML while an old
\* file was at the output path; the file is still there, unchanged
C10_Witness_OldOutputKept ==
    /\ env.script = "B"
    /\ pc = "done"
    /\ result = Uncaught(NoHtmlError)
    /\ Exists(env.disk0, out_pdf)
    /\ disk[out_pdf] = OldEntry

====
